---- MODULE Spec2Model ----
(***************************************************************************)
(* A model of the tile index service of src/main.py: the request handlers  *)
(* index_tile, search_images, delete_image and health, with the            *)
(* require_auth decorator, over the two stores they keep (the Firestore    *)
(* collection and the Chroma collection), at the granularity of one store  *)
(* call per step.                                                          *)
(*                                                                         *)
(* Values.  A string the code inspects character by character is a         *)
(* sequence: an image_id is a sequence of characters, a URL is the         *)
(* sequence <<scheme, part, part, ...>> of its scheme prefix and the       *)
(* pieces of text that follow it.  Python's None is None (NoneDict where a  *)
(* dict is expected).  A                                                   *)
(* JSON object is a function whose domain is the set of keys present.      *)
(* Coordinates of bounds and rois are whole degrees.  A center, the half of *)
(* a sum of two of them, is kept as twice its value, so that a center of    *)
(* n + 1/2 degrees is the integer 2n + 1 and no half is lost.               *)
(***************************************************************************)
EXTENDS Integers, Sequences, FiniteSets, TLC

VARIABLES
    fs,        \* Firestore collection: document id -> document (a dict)
    ch,        \* Chroma collection: record id -> [emb: embedding, md: metadata dict]
    now,       \* the server clock, one tick per request received
    op,        \* per worker: the handler of its request: "index", "search", "delete"
    pc,        \* per worker: the handler step it is at
    exc,       \* per worker: the exception index_tile's rollback will re-raise
    req,       \* per worker: the JSON body (and path parameter) of its request
    hdr,       \* per worker: the headers of its request (a dict)
    meta,      \* per worker: the handler's locals: index_tile's `meta`; for
               \* search_images the n_results of each query it has issued
               \* and the `metadatas` (record ids) the query returned
    ops,       \* per worker: the store calls its current request has issued
    snap,      \* per worker: both stores as they were when its request arrived
    resp,      \* per worker: the response of its last finished request
    hist       \* what has ever happened: "rollback_failed", "lookup_failed"

vars == <<fs, ch, now, op, pc, exc, req, hdr, meta, ops, snap, resp, hist>>

-----------------------------------------------------------------------------
(* Bounds of the model *)

\* requests received in one run (the clock stops there)
MaxRequests == 2

-----------------------------------------------------------------------------
(* Config, src/main.py 38-79 *)

ALLOWED_DOMAINS ==
    {"storms.ngs.noaa.gov", "stormscdn.ngs.noaa.gov", "noaa.gov",
     "storage.googleapis.com", "picsum.photos"}
MAX_RESULTS == 100
DEFAULT_K == 10
ROI_MULTIPLIER == 3
MIN_LAT == -90
MAX_LAT == 90
MIN_LON == -180
MAX_LON == 180

\* validate_image_id's limit on len(image_id)
MAX_ID_LEN == 200

\* None where a string is expected, and None where a dict is expected (TLC
\* compares a value only with values of its own kind)
None == <<"None">>
NoneDict == [none |-> TRUE]
NoResp == [code |-> 0]
Workers == {"w1", "w2"}

Put(store, id, doc) ==
    [x \in DOMAIN store \cup {id} |-> IF x = id THEN doc ELSE store[x]]
Remove(store, id) == [x \in DOMAIN store \ {id} |-> store[x]]
\* dict.get(key): the value, or None when the key is absent
Get(d, key) == IF key \in DOMAIN d THEN d[key] ELSE None
\* dict.get(key, default)
GetOr(d, key, default) == IF key \in DOMAIN d THEN d[key] ELSE default
\* {**a, **b}: the keys of b win
Merge(a, b) ==
    [k \in DOMAIN a \cup DOMAIN b |-> IF k \in DOMAIN b THEN b[k] ELSE a[k]]
\* Python truthiness of a str-or-None value
Truthy(v) == v # None /\ v # <<>>

\* str.strip() of a string given as a sequence of characters or pieces
RECURSIVE LStrip(_)
LStrip(q) == IF q # <<>> /\ Head(q) = " " THEN LStrip(Tail(q)) ELSE q
RECURSIVE RStrip(_)
RStrip(q) ==
    IF q # <<>> /\ q[Len(q)] = " " THEN RStrip(SubSeq(q, 1, Len(q) - 1)) ELSE q
Strip(q) == RStrip(LStrip(q))

-----------------------------------------------------------------------------
(* Validation, src/main.py 163-220.  Each returns "ok" or the message of   *)
(* the ValidationError it raises.                                          *)

BoundsKeys == <<"west", "south", "east", "north">>

\* A variant of FirstMissing that reports the last missing key
FirstMissing_Last(keys, d) ==
    LET miss == {i \in 1..Len(keys) : keys[i] \notin DOMAIN d}
    IN  IF miss = {} THEN 0 ELSE CHOOSE i \in miss : \A j \in miss : i >= j

\* The position in `keys` of the first key that is not in d, or 0 (the loops
\* of lines 482-484 and 166-168)
FirstMissing(keys, d) ==
    LET miss == {i \in 1..Len(keys) : keys[i] \notin DOMAIN d}
    IN  IF miss = {} THEN 0 ELSE CHOOSE i \in miss : \A j \in miss : i <= j

validate_bounds(bounds) ==
    LET m == FirstMissing(BoundsKeys, bounds)
    IN  IF m # 0 THEN <<"Missing bounds", BoundsKeys[m]>>
        ELSE LET west == bounds["west"]
                 south == bounds["south"]
                 east == bounds["east"]
                 north == bounds["north"]
             IN  IF ~(MIN_LON <= west /\ west <= MAX_LON)
                     THEN <<"Invalid west longitude", west>>
                 ELSE IF ~(MIN_LON <= east /\ east <= MAX_LON)
                     THEN <<"Invalid east longitude", east>>
                 ELSE IF ~(MIN_LAT <= south /\ south <= MAX_LAT)
                     THEN <<"Invalid south latitude", south>>
                 ELSE IF ~(MIN_LAT <= north /\ north <= MAX_LAT)
                     THEN <<"Invalid north latitude", north>>
                 ELSE IF west >= east THEN <<"west must be less than east">>
                 ELSE IF south >= north THEN <<"south must be less than north">>
                 ELSE "ok"

validate_url(url) ==
    IF url = <<>> \/ url[1] \notin {"http://", "https://"}
        THEN <<"URL must start with http:// or https://">>
    ELSE IF ~(\E i \in 1..Len(url) : url[i] \in ALLOWED_DOMAINS)
        THEN <<"URL domain not allowed">>
    ELSE "ok"

BadIdChars == {"/", "\\", "NUL", "LF", "CR"}

validate_image_id(image_id) ==
    IF image_id = None \/ image_id = <<>> \/ Len(image_id) > MAX_ID_LEN
        THEN <<"image_id must be 1-200 characters">>
    ELSE IF \E i \in 1..Len(image_id) : image_id[i] \in BadIdChars
        THEN <<"image_id contains invalid characters">>
    ELSE "ok"

\* url_hash: a digest of the URL; distinct URLs of the model have distinct digests
url_hash(url) == <<"sha256">> \o url

\* Twice a whole number of degrees: the scale centers are kept at
Twice(x) == 2 * x

\* lines 512-513: (a + b) / 2.0, a float division, at the scale of centers
Mid(a, b) == Twice(a + b) \div 2

-----------------------------------------------------------------------------
(* The requests of the model *)

T1 == <<"t", "1">>
T2 == <<"t", "2">>
LongId == [i \in 1..(MAX_ID_LEN + 1) |-> "x"]
UA == <<"https://", "noaa.gov", "/a.png">>
UB == <<"https://", "noaa.gov", "/b.png">>
UX == <<"https://", "noaa.gov", "/x.png">>
Thumb == <<"https://", "storage.googleapis.com", "/t.png">>
B1 == [west |-> -78, south |-> 18, east |-> -76, north |-> 20]
B2 == [west |-> -77, south |-> 17, east |-> -74, north |-> 20]

ReservedKeys ==
    {"image_id", "tile_url", "thumb_url", "url_hash", "west", "south", "east",
     "north", "center_lat", "center_lon", "timestamp", "indexed_at"}

\* Caller metadata bags: a plain key, the key image_id, every other reserved key.
PlainBag == [mission |-> <<"melissa">>]
IdBag == [image_id |-> T2]
ReservedBag ==
    [tile_url |-> UX, thumb_url |-> UX, url_hash |-> url_hash(UX),
     west |-> 0, south |-> 0, east |-> 0, north |-> 0,
     center_lat |-> 0, center_lon |-> 0,
     timestamp |-> <<"caller">>, indexed_at |-> 0]
Bags == {PlainBag, IdBag, ReservedBag}

\* Variant 1 carries thumb_url and timestamp, variant 2 has thumb_url null and
\* no timestamp key.
Body(id, url, variant) ==
    IF variant = 1
    THEN [image_id |-> id, tile_url |-> url, bounds |-> B1,
          thumb_url |-> Thumb, timestamp |-> <<"2025-10-31">>]
    ELSE [image_id |-> id, tile_url |-> url, bounds |-> B2, thumb_url |-> None]

ValidIndexBodies ==
    LET plain == {Body(id, url, v) : id \in {T1, T2}, url \in {UA, UB}, v \in {1, 2}}
    IN  plain \cup {b @@ ("metadata" :> bag) : b \in plain, bag \in Bags}

Without(d, key) == [k \in DOMAIN d \ {key} |-> d[k]]

InvalidIndexBodies ==
    LET b == Body(T1, UA, 1)
    IN  { <<>>,
          Without(b, "image_id"),
          Without(b, "tile_url"),
          Without(b, "bounds"),
          [b EXCEPT !["image_id"] = <<>>],
          [b EXCEPT !["image_id"] = <<"a", "/", "b">>],
          [b EXCEPT !["image_id"] = LongId],
          [b EXCEPT !["tile_url"] = <<"ftp://", "noaa.gov", "/a.png">>],
          [b EXCEPT !["tile_url"] = <<"https://", "example.com", "/tile.png">>],
          [b EXCEPT !["thumb_url"] = <<"https://", "example.com", "/t.png">>],
          [b EXCEPT !["bounds"] = [west |-> -78, south |-> 18]],
          [b EXCEPT !["bounds"] = [B1 EXCEPT !["west"] = -181]],
          [b EXCEPT !["bounds"] = [B1 EXCEPT !["north"] = 91]],
          [b EXCEPT !["bounds"] = [B1 EXCEPT !["east"] = -78]],
          [b EXCEPT !["bounds"] = [B1 EXCEPT !["south"] = 20]],
          Without([b EXCEPT !["tile_url"] = <<"ftp://", "noaa.gov", "/a.png">>],
                  "bounds"),
          Without(Without(b, "tile_url"), "bounds"),
          Without([b EXCEPT !["image_id"] = <<>>], "tile_url"),
          [b EXCEPT !["bounds"] = <<>>],
          [b EXCEPT !["bounds"] = [west |-> -78, east |-> -76]],
          [b EXCEPT !["bounds"] = [west |-> -181, south |-> 18, east |-> -76]],
          [b EXCEPT !["thumb_url"] = <<"https://", "example.com", "/t.png">>,
                    !["bounds"] = [B1 EXCEPT !["west"] = -181]],
          [b EXCEPT !["tile_url"] = <<"https://", "example.com", "/tile.png">>,
                    !["thumb_url"] = <<"ftp://", "noaa.gov", "/t.png">>],
          [b EXCEPT !["image_id"] = <<"a", "/", "b">>,
                    !["tile_url"] = <<"ftp://", "noaa.gov", "/a.png">>,
                    !["bounds"] = [B1 EXCEPT !["south"] = 20]] }

IndexBodies == ValidIndexBodies \cup InvalidIndexBodies

-----------------------------------------------------------------------------
(* index_tile, src/main.py 449-556 *)

RequiredFields == <<"image_id", "tile_url", "bounds">>

\* lines 478-499: the message of the ValidationError raised, or "ok"
IndexValidate(data) ==
    LET m == FirstMissing(RequiredFields, data)
    IN  IF m # 0 THEN <<"Missing field", RequiredFields[m]>>
        ELSE IF validate_image_id(data["image_id"]) # "ok"
            THEN validate_image_id(data["image_id"])
        ELSE IF validate_url(data["tile_url"]) # "ok"
            THEN validate_url(data["tile_url"])
        ELSE IF validate_bounds(data["bounds"]) # "ok"
            THEN validate_bounds(data["bounds"])
        ELSE IF Truthy(Get(data, "thumb_url"))
                /\ validate_url(data["thumb_url"]) # "ok"
            THEN validate_url(data["thumb_url"])
        ELSE "ok"

\* lines 511-532: the items of `meta` that index_tile derives from the request
Derived(data, clock) ==
    LET bounds == data["bounds"]
    IN      [image_id |-> data["image_id"],
             tile_url |-> data["tile_url"],
             thumb_url |-> Get(data, "thumb_url"),
             url_hash |-> url_hash(data["tile_url"]),
             west |-> bounds["west"],
             south |-> bounds["south"],
             east |-> bounds["east"],
             north |-> bounds["north"],
             center_lat |-> Mid(bounds["south"], bounds["north"]),
             center_lon |-> Mid(bounds["west"], bounds["east"]),
             timestamp |-> Get(data, "timestamp"),
             indexed_at |-> clock]

\* lines 520-534: the dict `meta`; **extra_metadata is unpacked last
AssembleMeta(data, clock) ==
    Merge(Derived(data, clock), GetOr(data, "metadata", <<>>))

\* The keys whose values are numbers or None (a number is not compared with
\* None by =: IsNone tells them apart)
NumericKeys ==
    {"west", "south", "east", "north", "center_lat", "center_lon", "indexed_at"}

\* `v is None`, for a value that may be a number
IsNone(v) == ToString(v) = ToString(None)

\* line 327: clean_meta, the items whose value is not None
CleanMeta(m) ==
    [k \in {x \in DOMAIN m : IF x \in NumericKeys THEN ~IsNone(m[x])
                                                  ELSE m[x] # None} |-> m[k]]

\* encode_image(download_image(tile_url)): the embedding of the image at the URL
ImageEmbedding(url) == url[Len(url)]

\* check_duplicate_url's query: the ids of the documents whose url_hash matches
DocsWithHash(h) == {id \in DOMAIN fs : Get(fs[id], "url_hash") = h}

\* check_duplicate_url (294-307): what it returns.  The query gives one of the
\* matching documents (limit(1)) and its id is returned; with no match, or when
\* the query raises (the exception is logged), None is returned.
LookupResults(h) ==
    {[existing_id |-> id, failed |-> FALSE] : id \in DocsWithHash(h)}
        \cup (IF DocsWithHash(h) = {}
              THEN {[existing_id |-> None, failed |-> FALSE]} ELSE {})
        \cup {[existing_id |-> None, failed |-> TRUE]}

\* collection.upsert on success (the vector store's upsert(id, vector, metadata)):
\* the record of that id is inserted, or replaced by the new one
Upsert(id, emb, clean) == Put(ch, id, [emb |-> emb, md |-> clean])

Finish(w, response) ==
    /\ pc' = [pc EXCEPT ![w] = "idle"]
    /\ resp' = [resp EXCEPT ![w] = response]

Issue(w, calls) == ops' = [ops EXCEPT ![w] = @ \cup calls]

\* A request arrives at an idle worker (before_request, 396-400)
Arrive(w, handler, headers, data) ==
    /\ pc[w] = "idle"
    /\ now < MaxRequests
    /\ now' = now + 1
    /\ op' = [op EXCEPT ![w] = handler]
    /\ req' = [req EXCEPT ![w] = data]
    /\ hdr' = [hdr EXCEPT ![w] = headers]
    /\ snap' = [snap EXCEPT ![w] = <<fs, ch>>]
    /\ ops' = [ops EXCEPT ![w] = {}]

-----------------------------------------------------------------------------
(* Authentication, src/main.py 225-237.  A header value is the sequence of *)
(* its pieces of text: the scheme prefix "Bearer ", a blank " ", a token.  *)

\* line 47: the token the service is configured with
INDEX_TOKEN == <<"change-me">>
WrongToken == <<"wrong-token">>

\* str.replace(piece, ""): every occurrence is removed
Replace(s, piece) == SelectSeq(s, LAMBDA x : x # piece)

\* A variant of RequestToken that reads X-Index-Token only
RequestToken_XOnly(headers) == Get(headers, "X-Index-Token")

\* lines 229-230: the token require_auth reads from the headers
RequestToken(headers) ==
    LET x == Get(headers, "X-Index-Token")
    IN  IF Truthy(x)
        THEN x
        ELSE Strip(Replace(GetOr(headers, "Authorization", <<>>), "Bearer "))

\* lines 232-236: whether the decorated handler is called
require_auth(headers) ==
    LET token == RequestToken(headers)
    IN  ~(~Truthy(token) \/ token # INDEX_TOKEN)

\* line 234
Unauthorized == [code |-> 401, error |-> <<"unauthorized">>]

\* The headers of a request: none, and the index token in X-Index-Token
NoHeaders == <<>>
Header(name, value) == [n \in {name} |-> value]
TokenHeader == Header("X-Index-Token", INDEX_TOKEN)

\* The header sets of the model: no token; the right and a wrong token in
\* either header; an empty X-Index-Token; a token with no scheme, with blanks
\* around it, with a lower-case scheme; the scheme alone; both headers.
AuthHeaders ==
    { NoHeaders,
      TokenHeader,
      Header("X-Index-Token", WrongToken),
      Header("X-Index-Token", <<>>),
      Header("Authorization", <<"Bearer ">> \o INDEX_TOKEN),
      Header("Authorization", <<"Bearer ">> \o WrongToken),
      Header("Authorization", INDEX_TOKEN),
      Header("Authorization", <<"Bearer ", " ">> \o INDEX_TOKEN \o <<" ">>),
      Header("Authorization", <<"bearer ">> \o INDEX_TOKEN),
      Header("Authorization", <<"Bearer ">>),
      Merge(Header("X-Index-Token", <<>>),
            Header("Authorization", <<"Bearer ">> \o INDEX_TOKEN)),
      Merge(TokenHeader, Header("Authorization", <<"Bearer ">> \o WrongToken)),
      Merge(Header("X-Index-Token", WrongToken),
            Header("Authorization", <<"Bearer ">> \o INDEX_TOKEN)) }

IndexError(e) == [code |-> 500, error |-> <<"Failed to index tile", e>>]

\* The request arrives: require_auth (225-237), then lines 478-499.  A
\* ValidationError is answered by handle_validation_error (lines 412-416).
IndexReceive(w, headers, data) ==
    /\ Arrive(w, "index", headers, data)
    /\ IF ~require_auth(headers)
       THEN Finish(w, Unauthorized)
       ELSE IF IndexValidate(data) # "ok"
       THEN Finish(w, [code |-> 400, error |-> IndexValidate(data)])
       ELSE /\ pc' = [pc EXCEPT ![w] = "check_dup"]
            /\ resp' = [resp EXCEPT ![w] = NoResp]
    /\ UNCHANGED <<fs, ch, exc, meta, hist>>

\* lines 501-509 with check_duplicate_url (294-307): the query returns one
\* matching document (limit(1)), or raises, which is logged and read as "no
\* duplicate".
IndexCheckDup(w) ==
    /\ pc[w] = "check_dup"
    /\ \E r \in LookupResults(url_hash(req[w]["tile_url"])) :
        /\ Issue(w, IF r.failed THEN {"fs_query", "lookup_failed"} ELSE {"fs_query"})
        /\ hist' = IF r.failed THEN hist \cup {"lookup_failed"} ELSE hist
        /\ IF r.existing_id # None /\ r.existing_id # req[w]["image_id"]
           THEN Finish(w, [code |-> 200, warning |-> "URL already indexed",
                           existing_image_id |-> r.existing_id,
                           action |-> "skipped"])
           ELSE /\ pc' = [pc EXCEPT ![w] = "fetch"]
                /\ UNCHANGED resp
    /\ UNCHANGED <<fs, ch, now, op, exc, req, hdr, meta, snap>>

MAX_RETRIES == 3
STATUS_FORCELIST == {500, 502, 503, 504}

\* What one GET of the tile URL comes to: a response with its status, or a
\* transport error (the connection failed, or nothing arrived within
\* DOWNLOAD_TIMEOUT)
Response(status) == [kind |-> "response", status |-> status]
TransportError(name) == [kind |-> name, status |-> 0]
Statuses == {200, 404, 500, 503}
AttemptOutcomes ==
    {Response(s) : s \in Statuses}
        \cup {TransportError("connection error"), TransportError("timeout")}

\* A retry policy that retries every response that is not a success
Retryable_AnyFailure(o) == o.kind # "response" \/ o.status \notin 200..299

\* lines 128-132: Retry(total=MAX_RETRIES, status_forcelist=[500, 502, 503, 504])
\* retries a GET after a transport error and after a response whose status is
\* in the list
Retryable(o) == o.kind # "response" \/ o.status \in STATUS_FORCELIST

\* lines 254-257: the message of the exception download_image raises once the
\* retries are used up; a timeout reaches it as Timeout (connect) or as
\* ConnectionError (read), a status of the list as RetryError
DownloadFailure(o) ==
    IF o.kind = "timeout"
    THEN {"Timeout downloading image", "Failed to download image"}
    ELSE {"Failed to download image"}

DecodeErrors == {"Failed to open image", "encode_image failed"}

FetchErrors ==
    {"Timeout downloading image", "Failed to download image"} \cup DecodeErrors

\* line 511, download_image lines 252-257: one attempt of http_session.get
\* (lines 125-136). The attempt is retried while the policy allows it; a
\* response outside the list is returned and raise_for_status raises on any
\* status that is not a success.
IndexDownload(w) ==
    /\ pc[w] \in {"fetch", "retry"}
    /\ \E o \in AttemptOutcomes :
        LET n == (IF pc[w] = "fetch" THEN 0 ELSE meta[w].attempts) + 1 IN
        /\ meta' = [meta EXCEPT ![w] = [attempts |-> n, last |-> o]]
        /\ IF Retryable(o)
           THEN IF n <= MAX_RETRIES
                THEN /\ pc' = [pc EXCEPT ![w] = "retry"]
                     /\ UNCHANGED resp
                ELSE \E e \in DownloadFailure(o) : Finish(w, IndexError(e))
           ELSE IF o.status \in 200..299
                THEN /\ pc' = [pc EXCEPT ![w] = "decode"]
                     /\ UNCHANGED resp
                ELSE Finish(w, IndexError("Failed to download image"))
    /\ UNCHANGED <<fs, ch, now, op, exc, req, hdr, ops, snap, hist>>

\* A variant of IndexFetch that treats a fetch failure like a write failure
\* and sends it through rollback_index
IndexFetch_RollsBack(w) ==
    /\ pc[w] = "decode"
    /\ \/ /\ \E e \in DecodeErrors : exc' = [exc EXCEPT ![w] = e]
          /\ pc' = [pc EXCEPT ![w] = "rb_fs"]
          /\ UNCHANGED meta
       \/ /\ meta' = [meta EXCEPT ![w] = AssembleMeta(req[w], now)]
          /\ pc' = [pc EXCEPT ![w] = "fs_write"]
          /\ UNCHANGED exc
    /\ UNCHANGED <<fs, ch, now, op, resp, req, hdr, ops, snap, hist>>

\* lines 511-534: the image of download_image is opened (lines 259-265) and
\* encoded (encode_image, 268-278), then `meta` is assembled
IndexFetch(w) ==
    /\ pc[w] = "decode"
    /\ \/ /\ \E e \in DecodeErrors : Finish(w, IndexError(e))
          /\ UNCHANGED meta
       \/ /\ meta' = [meta EXCEPT ![w] = AssembleMeta(req[w], now)]
          /\ pc' = [pc EXCEPT ![w] = "fs_write"]
          /\ UNCHANGED resp
    /\ UNCHANGED <<fs, ch, now, op, exc, req, hdr, ops, snap, hist>>

\* line 538, upsert_firestore_doc (310-319)
IndexWriteFs(w) ==
    /\ pc[w] = "fs_write"
    /\ \/ /\ fs' = Put(fs, meta[w]["image_id"], meta[w])
          /\ Issue(w, {"fs_set"})
          /\ pc' = [pc EXCEPT ![w] = "ch_write"]
          /\ UNCHANGED exc
       \/ /\ Issue(w, {"fs_set", "fs_set_failed"})
          /\ exc' = [exc EXCEPT ![w] = "firestore set failed"]
          /\ pc' = [pc EXCEPT ![w] = "rb_fs"]
          /\ UNCHANGED fs
    /\ UNCHANGED <<ch, now, op, req, hdr, meta, snap, resp, hist>>

\* A variant of Created that answers a plain success
Created_PlainOk(w) ==
    [code |-> 200, status |-> "indexed", image_id |-> req[w]["image_id"],
     center |-> [lat |-> Mid(req[w]["bounds"]["south"], req[w]["bounds"]["north"]),
                 lon |-> Mid(req[w]["bounds"]["west"], req[w]["bounds"]["east"])]]

\* lines 545-549: the created response
Created(w) ==
    [code |-> 201, status |-> "indexed", image_id |-> req[w]["image_id"],
     center |-> [lat |-> Mid(req[w]["bounds"]["south"], req[w]["bounds"]["north"]),
                 lon |-> Mid(req[w]["bounds"]["west"], req[w]["bounds"]["east"])]]

\* line 539, upsert_chroma_record (322-336), and on success lines 545-550.
\* The call succeeds, raises, or raises AttributeError (a client without upsert).
IndexWriteCh(w) ==
    /\ pc[w] = "ch_write"
    /\ \/ /\ Issue(w, {"ch_upsert"})
          /\ ch' = Upsert(meta[w]["image_id"],
                           ImageEmbedding(req[w]["tile_url"]),
                           CleanMeta(meta[w]))
          /\ Finish(w, Created(w))
          /\ UNCHANGED exc
       \/ /\ Issue(w, {"ch_upsert", "ch_upsert_failed"})
          /\ exc' = [exc EXCEPT ![w] = "chroma upsert failed"]
          /\ pc' = [pc EXCEPT ![w] = "rb_fs"]
          /\ UNCHANGED <<ch, resp>>
       \/ /\ Issue(w, {"ch_upsert", "no_upsert"})
          /\ pc' = [pc EXCEPT ![w] = "ch_legacy_delete"]
          /\ UNCHANGED <<ch, resp, exc>>
    /\ UNCHANGED <<fs, now, op, req, hdr, meta, snap, hist>>

\* lines 337-343: the fallback's delete; its failure is logged and ignored
IndexLegacyDelete(w) ==
    /\ pc[w] = "ch_legacy_delete"
    /\ \/ /\ ch' = Remove(ch, meta[w]["image_id"])
          /\ Issue(w, {"ch_delete"})
       \/ /\ Issue(w, {"ch_delete", "legacy_delete_failed"})
          /\ UNCHANGED ch
    /\ pc' = [pc EXCEPT ![w] = "ch_legacy_add"]
    /\ UNCHANGED <<fs, now, op, exc, req, hdr, meta, snap, resp, hist>>

\* lines 345-350: the fallback's add, which is not inside a try.  An id the
\* collection still holds is not added again: the add raises or is ignored.
IndexLegacyAdd(w) ==
    /\ pc[w] = "ch_legacy_add"
    /\ \/ /\ Issue(w, {"ch_add"})
          /\ ch' = IF meta[w]["image_id"] \in DOMAIN ch THEN ch
                   ELSE Put(ch, meta[w]["image_id"],
                            [emb |-> ImageEmbedding(req[w]["tile_url"]),
                             md |-> CleanMeta(meta[w])])
          /\ Finish(w, Created(w))
          /\ UNCHANGED exc
       \/ /\ Issue(w, {"ch_add", "ch_add_failed"})
          /\ exc' = [exc EXCEPT ![w] = "chroma add failed"]
          /\ pc' = [pc EXCEPT ![w] = "rb_fs"]
          /\ UNCHANGED <<ch, resp>>
    /\ UNCHANGED <<fs, now, op, req, hdr, meta, snap, hist>>

\* lines 540-542 and rollback_index 360-364: the Firestore delete; a failure
\* is logged and ignored
IndexRollbackFs(w) ==
    /\ pc[w] = "rb_fs"
    /\ \/ /\ fs' = Remove(fs, req[w]["image_id"])
          /\ Issue(w, {"fs_delete"})
          /\ UNCHANGED hist
       \/ /\ Issue(w, {"fs_delete", "fs_delete_failed"})
          /\ hist' = hist \cup {"rollback_failed"}
          /\ UNCHANGED fs
    /\ pc' = [pc EXCEPT ![w] = "rb_ch"]
    /\ UNCHANGED <<ch, now, op, exc, req, hdr, meta, snap, resp>>

\* IndexRollbackCh with a rollback failure raised in place of the original one
IndexRollbackCh_Masking(w) ==
    /\ pc[w] = "rb_ch"
    /\ \/ /\ ch' = Remove(ch, req[w]["image_id"])
          /\ Issue(w, {"ch_delete"})
          /\ Finish(w, IndexError(exc[w]))
          /\ UNCHANGED hist
       \/ /\ Issue(w, {"ch_delete", "ch_delete_failed"})
          /\ Finish(w, IndexError("chroma delete failed"))
          /\ hist' = hist \cup {"rollback_failed"}
          /\ UNCHANGED ch
    /\ UNCHANGED <<fs, now, op, exc, req, hdr, meta, snap>>

\* rollback_index 366-370: the Chroma delete, then `raise` (543) and the
\* handler of lines 554-556
IndexRollbackCh(w) ==
    /\ pc[w] = "rb_ch"
    /\ \/ /\ ch' = Remove(ch, req[w]["image_id"])
          /\ Issue(w, {"ch_delete"})
          /\ UNCHANGED hist
       \/ /\ Issue(w, {"ch_delete", "ch_delete_failed"})
          /\ hist' = hist \cup {"rollback_failed"}
          /\ UNCHANGED ch
    /\ Finish(w, IndexError(exc[w]))
    /\ UNCHANGED <<fs, now, op, exc, req, hdr, meta, snap>>

-----------------------------------------------------------------------------
(* search_images, src/main.py 559-662 *)

\* A JSON value of k: an integer, or a string that int() does not parse
\* The JSON values given as k: an integer, a decimal num/den, a string of
\* digits, any other string, null
IntK(n) == [type |-> "int", v |-> n]
FloatK(num, den) == [type |-> "float", num |-> num, den |-> den]
StrK(n) == [type |-> "numstr", v |-> n]
BadK == [type |-> "str"]
NullK == [type |-> "none"]

\* int(k), line 211: an int is itself, a float is truncated toward zero, a
\* string of digits is parsed; any other string raises ValueError and None
\* raises TypeError
PyInt(k) ==
    CASE k.type = "int" -> [ok |-> TRUE, v |-> k.v]
      [] k.type = "float" ->
            [ok |-> TRUE,
             v |-> IF k.num >= 0 THEN k.num \div k.den
                   ELSE -((-k.num) \div k.den)]
      [] k.type = "numstr" -> [ok |-> TRUE, v |-> k.v]
      [] OTHER -> [ok |-> FALSE]

\* validate_k (208-220): [ok, k] or [ok, error]
validate_k(k) ==
    LET n == PyInt(k)
    IN  IF ~n.ok THEN [ok |-> FALSE, error |-> <<"k must be an integer">>]
        ELSE IF n.v < 1 THEN [ok |-> FALSE, error |-> <<"k must be at least 1">>]
        ELSE IF n.v > MAX_RESULTS
            THEN [ok |-> FALSE, error |-> <<"k cannot exceed", MAX_RESULTS>>]
        ELSE [ok |-> TRUE, k |-> n.v]


MAX_QUERY_LEN == 500

\* Python truthiness of a dict-or-None value: None and {} are false
TruthyDict(d) == d # NoneDict /\ DOMAIN d # {}

\* lines 578-592: the message of the ValidationError raised, or "ok"
SearchValidate(data) ==
    LET query == Strip(GetOr(data, "query", <<>>))
        roi == GetOr(data, "roi", NoneDict)
    IN  IF query = <<>> THEN <<"query is required">>
        ELSE IF Len(query) > MAX_QUERY_LEN THEN <<"query too long">>
        ELSE IF ~validate_k(GetOr(data, "k", IntK(DEFAULT_K))).ok
            THEN validate_k(GetOr(data, "k", IntK(DEFAULT_K))).error
        ELSE IF TruthyDict(roi) /\ validate_bounds(roi) # "ok"
            THEN validate_bounds(roi)
        ELSE "ok"

Min(a, b) == IF a < b THEN a ELSE b

\* lines 597-599
\* A variant of FetchCount without the cap at MAX_RESULTS
FetchCount_Uncapped(k, roi) == IF TruthyDict(roi) THEN k * ROI_MULTIPLIER ELSE k

FetchCount(k, roi) == Min(IF TruthyDict(roi) THEN k * ROI_MULTIPLIER ELSE k, MAX_RESULTS)

\* The distance between encode_text(query) and a stored embedding
Distance(query, emb) ==
    CASE emb = "/a.png" -> 1
      [] emb = "/b.png" -> 2
      [] OTHER -> 3

\* collection.query (603-607): the ids of the n nearest records, nearest first
\* (records at the same distance in any order)
QueryResults(query, n) ==
    LET ids == DOMAIN ch
        size == Min(n, Cardinality(ids))
        D(id) == Distance(query, ch[id].emb)
    IN  {s \in [1..size -> ids] :
            /\ \A i, j \in 1..size : i < j => s[i] # s[j] /\ D(s[i]) <= D(s[j])
            /\ \A id \in ids : (\A i \in 1..size : s[i] # id)
                                  => \A i \in 1..size : D(s[i]) <= D(id)}

\* A variant of InRoi that filters on the latitude only
InRoi_LatOnly(md, roi) ==
    /\ "center_lat" \in DOMAIN md
    /\ Twice(roi["south"]) <= md["center_lat"]
    /\ md["center_lat"] <= Twice(roi["north"])

\* lines 615-624: whether a hit's metadata passes the ROI filter
InRoi(md, roi) ==
    /\ "center_lat" \in DOMAIN md
    /\ "center_lon" \in DOMAIN md
    /\ Twice(roi["south"]) <= md["center_lat"]
    /\ md["center_lat"] <= Twice(roi["north"])
    /\ Twice(roi["west"]) <= md["center_lon"]
    /\ md["center_lon"] <= Twice(roi["east"])

\* A variant of Hit that reports the distance as the similarity
Hit_SimilarityIsDistance(md, dist) ==
    [image_id |-> Get(md, "image_id"),
     tile_url |-> Get(md, "tile_url"),
     thumb_url |-> Get(md, "thumb_url"),
     center |-> [lat |-> Get(md, "center_lat"), lon |-> Get(md, "center_lon")],
     bounds |-> [west |-> Get(md, "west"), south |-> Get(md, "south"),
                 east |-> Get(md, "east"), north |-> Get(md, "north")],
     timestamp |-> Get(md, "timestamp"),
     distance |-> dist,
     similarity |-> dist]

\* lines 626-643
Hit(md, dist) ==
    [image_id |-> Get(md, "image_id"),
     tile_url |-> Get(md, "tile_url"),
     thumb_url |-> Get(md, "thumb_url"),
     center |-> [lat |-> Get(md, "center_lat"), lon |-> Get(md, "center_lon")],
     bounds |-> [west |-> Get(md, "west"), south |-> Get(md, "south"),
                 east |-> Get(md, "east"), north |-> Get(md, "north")],
     timestamp |-> Get(md, "timestamp"),
     distance |-> dist,
     similarity |-> 1 - dist]

\* A variant of Collect that takes the first k fetched hits, inside the roi or
\* not
Collect_Unfiltered(fetched, i, hits, k, roi, query) ==
    [j \in 1..Min(k, Len(fetched)) |->
        Hit(ch[fetched[j]].md, Distance(query, ch[fetched[j]].emb))]

\* A variant of Collect without the break at k hits
RECURSIVE Collect_NoBreak(_, _, _, _, _, _)
Collect_NoBreak(fetched, i, hits, k, roi, query) ==
    IF i > Len(fetched) THEN hits
    ELSE LET md == ch[fetched[i]].md
             dist == Distance(query, ch[fetched[i]].emb)
         IN  IF TruthyDict(roi) /\ ~InRoi(md, roi)
             THEN Collect_NoBreak(fetched, i + 1, hits, k, roi, query)
             ELSE Collect_NoBreak(fetched, i + 1, Append(hits, Hit(md, dist)),
                                  k, roi, query)

\* lines 612-647: the loop over the fetched records, from position i on, with
\* `hits` collected so far
RECURSIVE Collect(_, _, _, _, _, _)
Collect(fetched, i, hits, k, roi, query) ==
    IF i > Len(fetched) THEN hits
    ELSE LET md == ch[fetched[i]].md
             dist == Distance(query, ch[fetched[i]].emb)
         IN  IF TruthyDict(roi) /\ ~InRoi(md, roi)
             THEN Collect(fetched, i + 1, hits, k, roi, query)
             ELSE IF Len(hits) + 1 >= k
                 THEN Append(hits, Hit(md, dist))
                 ELSE Collect(fetched, i + 1, Append(hits, Hit(md, dist)),
                              k, roi, query)

Q1 == <<"f", "l", "o", "o", "d">>
Roi1 == [west |-> -78, south |-> 18, east |-> -77, north |-> 19]
Roi2 == [west |-> 10, south |-> 10, east |-> 20, north |-> 20]
Roi3 == [west |-> -78, south |-> 17, east |-> -75, north |-> 20]

ValidSearchBodies ==
    { [query |-> Q1],
      [query |-> Q1, k |-> IntK(1)],
      [query |-> <<" ">> \o Q1, k |-> IntK(2), roi |-> NoneDict],
      [query |-> Q1, k |-> IntK(1), roi |-> Roi1],
      [query |-> Q1, k |-> IntK(MAX_RESULTS), roi |-> Roi2],
      [query |-> Q1, roi |-> <<>>],
      [query |-> Q1, k |-> IntK(1), roi |-> Roi3],
      [query |-> Q1, roi |-> Roi1],
      [query |-> Q1, k |-> IntK(2), roi |-> Roi3],
      [query |-> Q1, k |-> StrK(2)],
      [query |-> Q1, k |-> FloatK(27, 10)],
      [query |-> Q1, k |-> FloatK(10 * MAX_RESULTS + 5, 10)] }

InvalidSearchBodies ==
    { <<>>,
      [query |-> <<>>, k |-> IntK(5)],
      [query |-> <<" ", " ">>, k |-> IntK(5)],
      [k |-> IntK(5)],
      [query |-> [i \in 1..(MAX_QUERY_LEN + 1) |-> "x"]],
      [query |-> Q1, k |-> IntK(-1)],
      [query |-> Q1, k |-> IntK(0)],
      [query |-> Q1, k |-> IntK(MAX_RESULTS + 1)],
      [query |-> Q1, k |-> BadK],
      [query |-> Q1, k |-> NullK],
      [query |-> Q1, k |-> FloatK(5, 10)],
      [query |-> Q1, k |-> FloatK(-15, 10)],
      [query |-> Q1, roi |-> [west |-> -78, south |-> 18]],
      [query |-> Q1, roi |-> [Roi1 EXCEPT !["east"] = -78]],
      [query |-> Q1, roi |-> [Roi1 EXCEPT !["north"] = 91]] }

SearchBodies == ValidSearchBodies \cup InvalidSearchBodies

SearchError(e) == [code |-> 500, error |-> <<"Search failed", e>>]

\* The locals of search_images before its query: no query issued
NoQueries == [queries |-> <<>>, metadatas |-> <<>>]

\* lines 603-610: one more query, asking for n results, has returned `fetched`
Queried(w, n, fetched) ==
    meta' = [meta EXCEPT ![w] = [queries |-> Append(@.queries, n),
                                 metadatas |-> fetched]]

\* The request arrives: lines 578-595.  encode_text may raise.
SearchReceive(w) ==
    /\ \E data \in SearchBodies :
        /\ Arrive(w, "search", NoHeaders, data)
        /\ IF SearchValidate(data) # "ok"
           THEN Finish(w, [code |-> 400, error |-> SearchValidate(data)])
           ELSE \/ Finish(w, SearchError("encode_text failed"))
                \/ /\ pc' = [pc EXCEPT ![w] = "query"]
                   /\ resp' = [resp EXCEPT ![w] = NoResp]
    /\ meta' = [meta EXCEPT ![w] = NoQueries]
    /\ UNCHANGED <<fs, ch, exc, hist>>

\* A variant of SearchQuery that answers an error when fewer than k hits are
\* left
SearchQuery_ShortIsError(w) ==
    /\ pc[w] = "query"
    /\ Issue(w, {"ch_query"})
    /\ LET query == Strip(req[w]["query"])
           k == validate_k(GetOr(req[w], "k", IntK(DEFAULT_K))).k
           roi == GetOr(req[w], "roi", NoneDict)
       IN  \/ /\ Queried(w, FetchCount(k, roi), <<>>)
              /\ Finish(w, SearchError("chroma query failed"))
           \/ \E fetched \in QueryResults(query, FetchCount(k, roi)) :
                LET hits == Collect(fetched, 1, <<>>, k, roi, query)
                IN  /\ Queried(w, FetchCount(k, roi), fetched)
                    /\ IF Len(hits) < k
                       THEN Finish(w, SearchError("not enough results"))
                       ELSE Finish(w, [code |-> 200, query |-> query,
                                       results |-> hits, count |-> Len(hits),
                                       requested |-> k])
    /\ UNCHANGED <<fs, ch, now, op, exc, req, hdr, snap, hist>>

\* lines 597-656: the query of the collection, the ROI filter and the response
SearchQuery(w) ==
    /\ pc[w] = "query"
    /\ Issue(w, {"ch_query"})
    /\ LET query == Strip(req[w]["query"])
           k == validate_k(GetOr(req[w], "k", IntK(DEFAULT_K))).k
           roi == GetOr(req[w], "roi", NoneDict)
       IN  \/ /\ Queried(w, FetchCount(k, roi), <<>>)
              /\ Finish(w, SearchError("chroma query failed"))
           \/ \E fetched \in QueryResults(query, FetchCount(k, roi)) :
                LET hits == Collect(fetched, 1, <<>>, k, roi, query)
                IN  /\ Queried(w, FetchCount(k, roi), fetched)
                    /\ Finish(w, [code |-> 200, query |-> query, results |-> hits,
                                  count |-> Len(hits), requested |-> k])
    /\ UNCHANGED <<fs, ch, now, op, exc, req, hdr, snap, hist>>

-----------------------------------------------------------------------------
(* delete_image, src/main.py 665-686 *)

\* The path parameter of the requests of the model
DeleteIds == {T1, T2, LongId, <<"a", "\\", "b">>}

\* A variant of DeleteReceive that goes to the stores without validating the id
DeleteReceive_Unvalidated(w, headers) ==
    /\ \E image_id \in DeleteIds :
        /\ Arrive(w, "delete", headers, [image_id |-> image_id])
        /\ IF ~require_auth(headers)
           THEN Finish(w, Unauthorized)
           ELSE /\ pc' = [pc EXCEPT ![w] = "del_fs"]
                /\ resp' = [resp EXCEPT ![w] = NoResp]
    /\ UNCHANGED <<fs, ch, exc, meta, hist>>

\* The request arrives: require_auth (225-237), then line 670
DeleteReceive(w, headers) ==
    /\ \E image_id \in DeleteIds :
        /\ Arrive(w, "delete", headers, [image_id |-> image_id])
        /\ IF ~require_auth(headers)
           THEN Finish(w, Unauthorized)
           ELSE IF validate_image_id(image_id) # "ok"
           THEN Finish(w, [code |-> 400, error |-> validate_image_id(image_id)])
           ELSE /\ pc' = [pc EXCEPT ![w] = "del_fs"]
                /\ resp' = [resp EXCEPT ![w] = NoResp]
    /\ UNCHANGED <<fs, ch, exc, meta, hist>>

\* lines 672-674: the Firestore delete; a failure ends the request (684-686)
DeleteFs(w) ==
    /\ pc[w] = "del_fs"
    /\ \/ /\ fs' = Remove(fs, req[w]["image_id"])
          /\ Issue(w, {"fs_delete"})
          /\ pc' = [pc EXCEPT ![w] = "del_ch"]
          /\ UNCHANGED resp
       \/ /\ Issue(w, {"fs_delete", "fs_delete_failed"})
          /\ Finish(w, [code |-> 500, error |-> <<"firestore delete failed">>])
          /\ UNCHANGED fs
    /\ UNCHANGED <<ch, now, op, exc, req, hdr, meta, snap, hist>>

\* lines 676-680: the Chroma delete and the response
DeleteCh(w) ==
    /\ pc[w] = "del_ch"
    /\ \/ /\ ch' = Remove(ch, req[w]["image_id"])
          /\ Issue(w, {"ch_delete"})
          /\ Finish(w, [code |-> 200, status |-> "deleted",
                        image_id |-> req[w]["image_id"]])
       \/ /\ Issue(w, {"ch_delete", "ch_delete_failed"})
          /\ Finish(w, [code |-> 500, error |-> <<"chroma delete failed">>])
          /\ UNCHANGED ch
    /\ UNCHANGED <<fs, now, op, exc, req, hdr, meta, snap, hist>>

Init ==
    /\ fs = <<>>
    /\ ch = <<>>
    /\ now = 0
    /\ op = [w \in Workers |-> "none"]
    /\ pc = [w \in Workers |-> "idle"]
    /\ exc = [w \in Workers |-> "none"]
    /\ req = [w \in Workers |-> <<>>]
    /\ hdr = [w \in Workers |-> <<>>]
    /\ meta = [w \in Workers |-> <<>>]
    /\ ops = [w \in Workers |-> {}]
    /\ snap = [w \in Workers |-> <<<<>>, <<>>>>]
    /\ resp = [w \in Workers |-> NoResp]
    /\ hist = {}

\* The steps of index_tile after the request has been received
IndexRun(w) ==
    \/ IndexCheckDup(w)
    \/ IndexDownload(w)
    \/ IndexFetch(w)
    \/ IndexWriteFs(w)
    \/ IndexWriteCh(w)
    \/ IndexLegacyDelete(w)
    \/ IndexLegacyAdd(w)
    \/ IndexRollbackFs(w)
    \/ IndexRollbackCh(w)

SearchStep(w) == SearchReceive(w) \/ SearchQuery(w)

\* delete_image, for a request that carries the index token
DeleteStep(w) == DeleteReceive(w, TokenHeader) \/ DeleteFs(w) \/ DeleteCh(w)

Step(w) ==
    \/ \E data \in IndexBodies : IndexReceive(w, TokenHeader, data)
    \/ IndexRun(w)
    \/ SearchStep(w)
    \/ DeleteStep(w)

\* One request at a time: a single worker serves the requests in turn.
Next == Step("w1")

Spec == Init /\ [][Next]_vars

\* index_tile requests only, one at a time.
IndexNext ==
    \/ \E data \in IndexBodies : IndexReceive("w1", TokenHeader, data)
    \/ IndexRun("w1")

IndexSpec == Init /\ [][IndexNext]_vars

\* The same, with the handler running on once it has started: every call it
\* makes returns or raises (the download has a timeout, line 68).
IndexLiveSpec == IndexSpec /\ WF_vars(IndexRun("w1"))

\* index_tile requests served concurrently by two workers, with no lock.
ConcIndexBodies ==
    {Body(T1, UA, 1), Body(T2, UA, 1), Body(T1, UB, 2), Body(T1, UA, 2)}

ConcNext ==
    \E w \in Workers :
        \/ \E data \in ConcIndexBodies : IndexReceive(w, TokenHeader, data)
        \/ IndexRun(w)

ConcSpec == Init /\ [][ConcNext]_vars

\* index_tile and delete_image requests with any headers, one at a time.
AuthIndexBodies == {Body(T1, UA, 1), Body(T2, UB, 2), Without(Body(T1, UA, 1), "bounds")}

AuthNext ==
    \/ \E headers \in AuthHeaders, data \in AuthIndexBodies :
            IndexReceive("w1", headers, data)
    \/ IndexRun("w1")
    \/ \E headers \in AuthHeaders : DeleteReceive("w1", headers)
    \/ DeleteFs("w1")
    \/ DeleteCh("w1")

AuthSpec == Init /\ [][AuthNext]_vars

\* search_images and delete_image requests, one at a time, served by a process
\* that starts with stores earlier index_tile requests have filled.
T3 == <<"t", "3">>
NullCenterBag == [center_lat |-> None, center_lon |-> None]

\* The stores after index_tile has answered "created" for `data` (538-539)
Indexed(stores, data, clock) ==
    LET m == AssembleMeta(data, clock)
    IN  <<Put(stores[1], m["image_id"], m),
          Put(stores[2], m["image_id"],
              [emb |-> ImageEmbedding(data["tile_url"]), md |-> CleanMeta(m)])>>

RECURSIVE IndexedAll(_, _)
IndexedAll(stores, bodies) ==
    IF bodies = <<>> THEN stores
    ELSE IndexedAll(Indexed(stores, Head(bodies), 0), Tail(bodies))

StoredRuns ==
    LET a == Body(T1, UA, 1)
        b == Body(T2, UB, 2)
        c == Body(T3, UX, 2) @@ ("metadata" :> NullCenterBag)
        d == Body(T3, UB, 2) @@ ("metadata" :> NullCenterBag)
        e == Body(T2, UX, 2)
    IN  {<<>>, <<a>>, <<a, b>>, <<a, b, c>>, <<a, d, e>>}

QueryInit ==
    /\ \E run \in StoredRuns :
            /\ fs = IndexedAll(<<<<>>, <<>>>>, run)[1]
            /\ ch = IndexedAll(<<<<>>, <<>>>>, run)[2]
    /\ now = 0
    /\ op = [w \in Workers |-> "none"]
    /\ pc = [w \in Workers |-> "idle"]
    /\ exc = [w \in Workers |-> "none"]
    /\ req = [w \in Workers |-> <<>>]
    /\ hdr = [w \in Workers |-> <<>>]
    /\ meta = [w \in Workers |-> <<>>]
    /\ ops = [w \in Workers |-> {}]
    /\ snap = [w \in Workers |-> <<<<>>, <<>>>>]
    /\ resp = [w \in Workers |-> NoResp]
    /\ hist = {}

QueryNext == SearchStep("w1") \/ DeleteStep("w1")

QuerySpec == QueryInit /\ [][QueryNext]_vars

\* Two index_tile requests in turn over stores that hold T1 indexed from UA:
\* the first (kept in w1's variables) is for T1, the second (in w2's) arrives
\* once the first has returned.
FirstIndexBodies ==
    {Body(T1, UB, 1), Body(T1, UB, 2), Body(T1, UA, 2),
     Body(T1, UB, 2) @@ ("metadata" :> PlainBag),
     Body(T1, UB, 2) @@ ("metadata" :> ReservedBag)}

SecondIndexBodies ==
    {Body(T2, UA, 2), Body(T2, UB, 2), Body(T2, UX, 1), Body(T1, UB, 1)}

ReindexInit ==
    /\ fs = IndexedAll(<<<<>>, <<>>>>, <<Body(T1, UA, 1)>>)[1]
    /\ ch = IndexedAll(<<<<>>, <<>>>>, <<Body(T1, UA, 1)>>)[2]
    /\ now = 0
    /\ op = [w \in Workers |-> "none"]
    /\ pc = [w \in Workers |-> "idle"]
    /\ exc = [w \in Workers |-> "none"]
    /\ req = [w \in Workers |-> <<>>]
    /\ hdr = [w \in Workers |-> <<>>]
    /\ meta = [w \in Workers |-> <<>>]
    /\ ops = [w \in Workers |-> {}]
    /\ snap = [w \in Workers |-> <<<<>>, <<>>>>]
    /\ resp = [w \in Workers |-> NoResp]
    /\ hist = {}

ReindexNext ==
    \/ /\ op["w1"] = "none"
       /\ \E data \in FirstIndexBodies : IndexReceive("w1", TokenHeader, data)
    \/ IndexRun("w1")
    \/ /\ op["w1"] = "index" /\ pc["w1"] = "idle"
       /\ \E data \in SecondIndexBodies : IndexReceive("w2", TokenHeader, data)
    \/ IndexRun("w2")

ReindexSpec == ReindexInit /\ [][ReindexNext]_vars

-----------------------------------------------------------------------------
(* health, src/main.py 426-446 *)

\* The request arrives: line 427
HealthReceive(w) ==
    /\ Arrive(w, "health", NoHeaders, <<>>)
    /\ pc' = [pc EXCEPT ![w] = "health_fs"]
    /\ resp' = [resp EXCEPT ![w] = NoResp]
    /\ UNCHANGED <<fs, ch, exc, meta, hist>>

\* A variant of HealthCheckFs that probes Firestore by writing a document
HealthCheckFs_Probe(w) ==
    /\ pc[w] = "health_fs"
    /\ \/ /\ Issue(w, {"fs_set"})
          /\ fs' = Put(fs, <<"health_probe">>, [checked_at |-> now])
       \/ /\ Issue(w, {"fs_set", "fs_get_failed"})
          /\ UNCHANGED fs
    /\ pc' = [pc EXCEPT ![w] = "health_ch"]
    /\ UNCHANGED <<ch, now, op, exc, req, hdr, meta, snap, resp, hist>>

\* line 429, check_firestore_health (373-381): the read returns or raises; a
\* failure is logged and read as False
HealthCheckFs(w) ==
    /\ pc[w] = "health_fs"
    /\ \/ Issue(w, {"fs_get"})
       \/ Issue(w, {"fs_get", "fs_get_failed"})
    /\ pc' = [pc EXCEPT ![w] = "health_ch"]
    /\ UNCHANGED <<fs, ch, now, op, exc, req, hdr, meta, snap, resp, hist>>

\* line 430, check_chroma_health (384-391): count() returns or raises; a
\* failure is logged and read as False
HealthCheckCh(w) ==
    /\ pc[w] = "health_ch"
    /\ \/ Issue(w, {"ch_count"})
       \/ Issue(w, {"ch_count", "ch_count_failed"})
    /\ pc' = [pc EXCEPT ![w] = "health_body"]
    /\ UNCHANGED <<fs, ch, now, op, exc, req, hdr, meta, snap, resp, hist>>

\* lines 432-446: the body of the health response
HealthBody(firestore_ok, chroma_ok, total_images) ==
    [code |-> IF firestore_ok /\ chroma_ok THEN 200 ELSE 503,
     status |-> IF firestore_ok /\ chroma_ok THEN "ok" ELSE "degraded",
     components |-> [firestore |-> IF firestore_ok THEN "ok" ELSE "error",
                     chromadb |-> IF chroma_ok THEN "ok" ELSE "error",
                     clip_model |-> "loaded"],
     metrics |-> [total_images |-> total_images]]

\* What Flask answers when a handler raises an exception no handler is
\* registered for (only ValidationError and 413 are, lines 412-423)
InternalServerError == [code |-> 500, error |-> <<"Internal Server Error">>]

\* lines 435-446: the response is built; chroma_collection.count() at line 443
\* is called outside any try and returns or raises
HealthRespond(w) ==
    /\ pc[w] = "health_body"
    /\ \/ /\ Issue(w, {"metrics_count"})
          /\ Finish(w, HealthBody("fs_get_failed" \notin ops[w],
                                  "ch_count_failed" \notin ops[w],
                                  Cardinality(DOMAIN ch)))
       \/ /\ Issue(w, {"metrics_count", "metrics_count_failed"})
          /\ Finish(w, InternalServerError)
    /\ UNCHANGED <<fs, ch, now, op, exc, req, hdr, meta, snap, hist>>

HealthStep(w) ==
    HealthReceive(w) \/ HealthCheckFs(w) \/ HealthCheckCh(w) \/ HealthRespond(w)

\* health requests, one at a time, over stores that hold records.
HealthNext == HealthStep("w1")

HealthSpec == QueryInit /\ [][HealthNext]_vars

-----------------------------------------------------------------------------
(* stats (lines 689-711).                                                   *)

RECENT_LIMIT == 5

\* lines 696-699: what order_by("indexed_at", DESCENDING).limit(5).get() can
\* return, the ids of the newest documents, newest first; documents with the
\* same indexed_at come in either order
RecentDocs ==
    LET ids == {id \in DOMAIN fs : "indexed_at" \in DOMAIN fs[id]}
        n == Min(RECENT_LIMIT, Cardinality(ids))
    IN  {s \in [1..n -> ids] :
            /\ \A i, j \in 1..n :
                    i < j => /\ s[i] # s[j]
                             /\ fs[s[i]]["indexed_at"] >= fs[s[j]]["indexed_at"]
            /\ \A id \in ids \ {s[i] : i \in 1..n} :
                    \A i \in 1..n :
                        fs[s[i]]["indexed_at"] >= fs[id]["indexed_at"]}

\* lines 709-711
StatsError(e) == [code |-> 500, error |-> <<e>>]

StatsReceive(w) ==
    /\ Arrive(w, "stats", NoHeaders, <<>>)
    /\ pc' = [pc EXCEPT ![w] = "stats_count"]
    /\ resp' = [resp EXCEPT ![w] = NoResp]
    /\ UNCHANGED <<fs, ch, exc, meta, hist>>

\* line 693: chroma_collection.count() returns or raises
StatsCount(w) ==
    /\ pc[w] = "stats_count"
    /\ \/ /\ Issue(w, {"ch_count"})
          /\ meta' = [meta EXCEPT ![w] = [total_images |-> Cardinality(DOMAIN ch)]]
          /\ pc' = [pc EXCEPT ![w] = "stats_recent"]
          /\ UNCHANGED resp
       \/ /\ Issue(w, {"ch_count", "ch_count_failed"})
          /\ Finish(w, StatsError("count failed"))
          /\ UNCHANGED meta
    /\ UNCHANGED <<fs, ch, now, op, exc, req, hdr, snap, hist>>

\* lines 696-707: the query returns or raises; the response lists the image_id
\* field of each returned document
StatsRecent(w) ==
    /\ pc[w] = "stats_recent"
    /\ \/ /\ Issue(w, {"fs_query"})
          /\ \E s \in RecentDocs :
                Finish(w, [code |-> 200,
                           total_images |-> meta[w].total_images,
                           recent_images |->
                               [i \in 1..Len(s) |-> Get(fs[s[i]], "image_id")],
                           timestamp |-> now])
       \/ /\ Issue(w, {"fs_query", "fs_query_failed"})
          /\ Finish(w, StatsError("query failed"))
    /\ UNCHANGED <<fs, ch, now, op, exc, req, hdr, meta, snap, hist>>

StatsStep(w) == StatsReceive(w) \/ StatsCount(w) \/ StatsRecent(w)

\* search_images, health, stats and delete_image requests, one at a time, over
\* stores that hold records.
ReadNext ==
    \/ SearchStep("w1")
    \/ HealthStep("w1")
    \/ StatsStep("w1")
    \/ DeleteStep("w1")

ReadSpec == QueryInit /\ [][ReadNext]_vars

-----------------------------------------------------------------------------
(* Claims *)

\* The store calls that write or delete
Mutations ==
    {"fs_set", "fs_delete", "ch_upsert", "ch_add", "ch_delete"}

\* Worker w has finished a request of the handler
Finished(w, handler) == op[w] = handler /\ pc[w] = "idle" /\ resp[w] # NoResp

\* Both stores are as they were when w's request arrived
StoresUntouched(w) == fs = snap[w][1] /\ ch = snap[w][2]

\* The documents that, when w's request arrived, held the url_hash of its
\* tile_url under another image_id
OtherHolders(w) ==
    {id \in DOMAIN snap[w][1] :
        /\ id # req[w]["image_id"]
        /\ Get(snap[w][1][id], "url_hash") = url_hash(req[w]["tile_url"])}

\* C1: a validated index_tile request whose tile_url's hash is already held by
\* a document of another image_id issues no write and no delete, leaves both
\* stores as they were, and is answered by the duplicate warning naming that
\* document.
C1_DuplicateIsSkipped ==
    \A w \in Workers :
        (Finished(w, "index") /\ resp[w].code # 400 /\ OtherHolders(w) # {})
            => /\ resp[w].code = 200
               /\ resp[w].action = "skipped"
               /\ resp[w].existing_image_id \in OtherHolders(w)
               /\ ops[w] \cap Mutations = {}
               /\ StoresUntouched(w)

\* C2: when the vector-store write of index_tile fails after the metadata
\* write succeeded, a delete of the metadata document of the request's
\* image_id has been issued by the time the request returns (if it succeeded,
\* that document is gone), and the response is the operation failure that
\* carries the vector-store failure, whatever the rollback deletes did.
C2_UpsertFailureIsRolledBack ==
    \A w \in Workers :
        (/\ Finished(w, "index")
         /\ "fs_set" \in ops[w] /\ "fs_set_failed" \notin ops[w]
         /\ ops[w] \cap {"ch_upsert_failed", "ch_add_failed"} # {})
            => /\ "fs_delete" \in ops[w]
               /\ "fs_delete_failed" \notin ops[w]
                    => req[w]["image_id"] \notin DOMAIN fs
               /\ resp[w] = IndexError(IF "ch_add_failed" \in ops[w]
                                       THEN "chroma add failed"
                                       ELSE "chroma upsert failed")

\* C2 witness: the upsert failed after the metadata write, both rollback
\* deletes failed too, and the request has returned.
C2_Witness ==
    /\ Finished("w1", "index")
    /\ {"fs_set", "ch_upsert_failed", "fs_delete_failed", "ch_delete_failed"}
           \subseteq ops["w1"]
    /\ "fs_set_failed" \notin ops["w1"]

\* C3: between index_tile requests served one at a time, with every rollback
\* delete succeeding, an image_id has a document in the metadata store if and
\* only if it has a record in the vector store.
C3_StoresAgreeWhenIdle ==
    (pc["w1"] = "idle" /\ "rollback_failed" \notin hist) => DOMAIN fs = DOMAIN ch

\* C4: during an index_tile request that started from stores holding the same
\* ids, in every state it passes through (each is what a crash there leaves
\* behind), the vector store holds no record of the request's image_id unless
\* the metadata store holds its document.
C4_VectorNeverAhead ==
    \A w \in Workers :
        (op[w] = "index" /\ DOMAIN snap[w][1] = DOMAIN snap[w][2]
                /\ "image_id" \in DOMAIN req[w])
            => (req[w]["image_id"] \in DOMAIN ch => req[w]["image_id"] \in DOMAIN fs)

\* C5: whatever the interleaving of concurrent index_tile requests (every
\* duplicate lookup answering), no two documents of the metadata store with
\* different ids hold the same url_hash.
C5_UrlHashUnique ==
    "lookup_failed" \notin hist
        => \A a, b \in DOMAIN fs :
             a # b => Get(fs[a], "url_hash") # Get(fs[b], "url_hash")

\* Both stores held w's image_id with w's tile_url when its request arrived
Reindex(w) ==
    LET id == req[w]["image_id"]
    IN  /\ id \in DOMAIN snap[w][1] /\ id \in DOMAIN snap[w][2]
        /\ Get(snap[w][1][id], "tile_url") = req[w]["tile_url"]
        /\ Get(snap[w][2][id].md, "tile_url") = req[w]["tile_url"]

\* C6: a validated index_tile request for an image_id already indexed with the
\* same tile_url is never answered by the duplicate warning, and once it is
\* answered "created" each store holds for that image_id exactly the record of
\* this request (nothing of the earlier record is left).
C6_ReindexReplaces ==
    \A w \in Workers :
        (Finished(w, "index") /\ resp[w].code # 400 /\ Reindex(w))
            => /\ resp[w].code # 200
               /\ resp[w].code = 201 =>
                    LET id == req[w]["image_id"]
                        record == AssembleMeta(req[w], now)
                    IN  /\ id \in DOMAIN fs /\ fs[id] = record
                        /\ id \in DOMAIN ch /\ ch[id].md = CleanMeta(record)

\* The requests of handler h that its validation rejects
Rejected(h, data) ==
    CASE h = "index" -> IndexValidate(data) # "ok"
      [] h = "search" -> SearchValidate(data) # "ok"
      [] h = "delete" -> validate_image_id(data["image_id"]) # "ok"
      [] OTHER -> FALSE

C8_CreatedIsStored ==
    \A w \in Workers :
        (Finished(w, "index") /\ resp[w].code = 201)
            => LET X == resp[w].image_id
               IN  /\ X \in DOMAIN fs /\ X \in DOMAIN ch
                   /\ \A record \in {fs[X], ch[X].md} :
                        /\ Get(record, "url_hash") = url_hash(req[w]["tile_url"])
                        /\ record["center_lat"] = resp[w].center.lat
                        /\ record["center_lon"] = resp[w].center.lon

\* C9: after an index_tile request answered "created" whose metadata bag has a
\* reserved key, both stores hold for that key the value index_tile derived,
\* not the caller's.
C9_ReservedKeysWin ==
    \A w \in Workers :
        (Finished(w, "index") /\ resp[w].code = 201 /\ "metadata" \in DOMAIN req[w])
            => LET id == req[w]["image_id"]
                   derived == Derived(req[w], now)
               IN  \A key \in DOMAIN req[w]["metadata"] \cap ReservedKeys :
                        /\ id \in DOMAIN fs /\ id \in DOMAIN ch
                        /\ fs[id][key] = derived[key]
                        /\ Get(ch[id].md, key) = derived[key]

\* C10: an index_tile request whose image fetch or embedding fails is answered
\* by the operation failure, has issued no write and no delete, and leaves both
\* stores as they were.
C10_FetchFailureTouchesNothing ==
    \A w \in Workers :
        (Finished(w, "index") /\ "fs_set" \notin ops[w]
                /\ resp[w].code \notin {200, 400})
            => /\ resp[w].code = 500
               /\ resp[w].error[2] \in FetchErrors
               /\ ops[w] \cap Mutations = {}
               /\ StoresUntouched(w)

\* C10 witness: the fetch of a re-index request timed out and the record
\* committed earlier for its image_id is still in both stores.
C10_Witness ==
    /\ Finished("w1", "index")
    /\ resp["w1"] = IndexError("Timeout downloading image")
    /\ req["w1"]["image_id"] \in DOMAIN fs \cap DOMAIN ch

\* The markers of the store calls of index_tile that raised
StoreFailures ==
    {"lookup_failed", "fs_set_failed", "ch_upsert_failed", "ch_add_failed",
     "legacy_delete_failed", "fs_delete_failed", "ch_delete_failed"}

\* C11: an index_tile request one of whose store calls failed (the url_hash
\* lookup included) is answered by the operation failure, and once its lookup
\* has failed it issues no write.
C11_StoreFailureIsSurfaced ==
    \A w \in Workers :
        op[w] = "index" =>
            /\ (Finished(w, "index") /\ ops[w] \cap StoreFailures # {})
                    => resp[w].code = 500
            /\ "lookup_failed" \in ops[w] => ops[w] \cap Mutations = {}

\* Worker w's request has written its record to the metadata store / to the
\* vector store (the call returned without raising)
WroteFs(w) == "fs_set" \in ops[w] /\ "fs_set_failed" \notin ops[w]
WroteCh(w) ==
    \/ "ch_upsert" \in ops[w] /\ ops[w] \cap {"ch_upsert_failed", "no_upsert"} = {}
    \/ "ch_add" \in ops[w] /\ "ch_add_failed" \notin ops[w]

\* C12: once two concurrent index_tile requests for one image_id with
\* different payloads have both returned, the vector store, if a request wrote
\* to it, holds for that image_id the payload of a request that wrote to it;
\* so does the metadata store, unless a request that wrote to it has taken its
\* own write back.
C12_LastWriterWins ==
    (/\ \A w \in Workers : Finished(w, "index") /\ resp[w].code \in {201, 500}
     /\ req["w1"]["image_id"] = req["w2"]["image_id"]
     /\ req["w1"] # req["w2"])
        => LET id == req["w1"]["image_id"]
               fsWriters == {w \in Workers : WroteFs(w)}
               chWriters == {w \in Workers : WroteCh(w)}
           IN  /\ (fsWriters # {} /\ \A w \in fsWriters : "fs_delete" \notin ops[w])
                    => /\ id \in DOMAIN fs
                       /\ \E w \in fsWriters : fs[id] = meta[w]
               /\ chWriters # {} =>
                    /\ id \in DOMAIN ch
                    /\ \E w \in chWriters : ch[id].md = CleanMeta(meta[w])

\* C13: a delete_image request that passed validation has attempted the delete
\* on both stores by the time it returns, whatever either delete did, and when
\* it answers "deleted" neither store holds the image_id.
C13_DeleteReachesBothStores ==
    \A w \in Workers :
        (Finished(w, "delete") /\ ~Rejected("delete", req[w]))
            => /\ {"fs_delete", "ch_delete"} \subseteq ops[w]
               /\ resp[w].code = 200
                    => /\ req[w]["image_id"] \notin DOMAIN fs
                       /\ req[w]["image_id"] \notin DOMAIN ch

\* The roi of w's search request, or NoneDict
RoiOf(w) == GetOr(req[w], "roi", NoneDict)

\* C14: every result of a search_images request that supplies an roi has a
\* center, and the center lies in the roi box, bounds included.
C14_ResultsInsideRoi ==
    \A w \in Workers :
        (Finished(w, "search") /\ resp[w].code = 200 /\ TruthyDict(RoiOf(w)))
            => \A i \in 1..Len(resp[w].results) :
                LET center == resp[w].results[i].center
                    roi == RoiOf(w)
                IN  /\ ~IsNone(center.lat) /\ ~IsNone(center.lon)
                    /\ 2 * roi["south"] <= center.lat /\ center.lat <= 2 * roi["north"]
                    /\ 2 * roi["west"] <= center.lon /\ center.lon <= 2 * roi["east"]

\* C14 witness: an roi search over a store holding a record without center and
\* a record outside the roi returns a record whose center is on the roi's edge.
C14_Witness ==
    /\ Finished("w1", "search") /\ resp["w1"].code = 200
    /\ RoiOf("w1") = Roi1
    /\ T3 \in DOMAIN ch /\ "center_lat" \notin DOMAIN ch[T3].md
    /\ Len(resp["w1"].results) = 1
    /\ resp["w1"].results[1].center = [lat |-> 2 * Roi1["north"], lon |-> 2 * Roi1["east"]]

\* C15: the results of a search_images request are in non-decreasing order of
\* distance, with or without an roi, and each has similarity = 1 - distance.
C15_ResultsAscending ==
    \A w \in Workers :
        (Finished(w, "search") /\ resp[w].code = 200)
            => LET results == resp[w].results
               IN  /\ \A i, j \in 1..Len(results) :
                        i < j => results[i].distance <= results[j].distance
                   /\ \A i \in 1..Len(results) :
                        results[i].similarity = 1 - results[i].distance

\* C15 witness: an roi search returns two results, having skipped a record
\* whose distance lies between theirs.
C15_Witness ==
    /\ Finished("w1", "search") /\ resp["w1"].code = 200
    /\ TruthyDict(RoiOf("w1"))
    /\ Len(resp["w1"].results) = 2
    /\ T3 \in DOMAIN ch
    /\ resp["w1"].results[1].distance < Distance(Q1, ch[T3].emb)
    /\ Distance(Q1, ch[T3].emb) < resp["w1"].results[2].distance

\* The k a search request asks for: the integer given, or the default
RequestedK(data) == IF "k" \in DOMAIN data THEN PyInt(data["k"]).v ELSE DEFAULT_K

\* The records of the vector store whose center lies in the roi box
Admissible(roi) ==
    {id \in DOMAIN ch :
        /\ "center_lat" \in DOMAIN ch[id].md /\ "center_lon" \in DOMAIN ch[id].md
        /\ 2 * roi["south"] <= ch[id].md["center_lat"]
        /\ ch[id].md["center_lat"] <= 2 * roi["north"]
        /\ 2 * roi["west"] <= ch[id].md["center_lon"]
        /\ ch[id].md["center_lon"] <= 2 * roi["east"]}

\* C16: a successful search_images request returns at most min(k, MAX_RESULTS)
\* results, reports their number as count and the k asked for as requested.
C16_AtMostKResults ==
    \A w \in Workers :
        (Finished(w, "search") /\ resp[w].code = 200)
            => /\ Len(resp[w].results) <= Min(RequestedK(req[w]), MAX_RESULTS)
               /\ resp[w].count = Len(resp[w].results)
               /\ resp[w].requested = RequestedK(req[w])

\* C16 witness: an roi search with k = 1 over a store holding two records
\* inside the roi returns one result.
C16_Witness ==
    /\ Finished("w1", "search") /\ resp["w1"].code = 200
    /\ TruthyDict(RoiOf("w1"))
    /\ Cardinality(Admissible(RoiOf("w1"))) = 2
    /\ resp["w1"].requested = 1
    /\ resp["w1"].count = 1

\* The responses of a search whose embedding or vector-store query raised
SearchFailures ==
    {SearchError("encode_text failed"), SearchError("chroma query failed")}

\* C17: a valid search_images request whose collaborators answer is a success
\* also when it finds fewer than k tiles: without roi over a store of n < k
\* records it returns all n with count = n < requested, and with an roi holding
\* no stored center it returns count = 0.
C17_ShortResultIsSuccess ==
    \A w \in Workers :
        (/\ Finished(w, "search") /\ ~Rejected("search", req[w])
         /\ resp[w] \notin SearchFailures)
            => LET roi == RoiOf(w)
                   n == Cardinality(DOMAIN ch)
               IN  /\ (~TruthyDict(roi) /\ n < RequestedK(req[w]))
                        => /\ resp[w].code = 200
                           /\ resp[w].count = n
                           /\ resp[w].count < resp[w].requested
                           /\ {resp[w].results[i].image_id : i \in 1..n} = DOMAIN ch
                   /\ (TruthyDict(roi) /\ Admissible(roi) = {})
                        => /\ resp[w].code = 200
                           /\ resp[w].count = 0
                           /\ resp[w].results = <<>>

\* C17 witness: a search asking for the default 10 results over a store of 3
\* records returns the 3.
C17_Witness ==
    /\ Finished("w1", "search") /\ resp["w1"].code = 200
    /\ ~TruthyDict(RoiOf("w1"))
    /\ Cardinality(DOMAIN ch) = 3
    /\ resp["w1"].count = 3 /\ resp["w1"].requested = DEFAULT_K

\* The four outcomes of index_tile
IsCreated(r) ==
    /\ r.code = 201
    /\ DOMAIN r = {"code", "status", "image_id", "center"}
    /\ r.status = "indexed"
IsDuplicateWarning(r) ==
    /\ r.code = 200
    /\ DOMAIN r = {"code", "warning", "existing_image_id", "action"}
IsValidationFailure(r) == r.code = 400 /\ DOMAIN r = {"code", "error"}
IsOperationFailure(r) == r.code = 500 /\ DOMAIN r = {"code", "error"}

\* C18: every index_tile request ends, in exactly one of created, duplicate
\* warning, validation failure and operation failure, and a request that has
\* issued a store write or delete ends in created or operation failure.
C18_FourOutcomes ==
    /\ [](\A w \in Workers :
            Finished(w, "index") =>
                /\ Cardinality({i \in 1..4 :
                        <<IsCreated(resp[w]), IsDuplicateWarning(resp[w]),
                          IsValidationFailure(resp[w]),
                          IsOperationFailure(resp[w])>>[i]}) = 1
                /\ ops[w] \cap Mutations # {}
                        => IsCreated(resp[w]) \/ IsOperationFailure(resp[w]))
    /\ (pc["w1"] # "idle") ~> (pc["w1"] = "idle")

\* C18 witness: a request that wrote and had to delete ended in the operation
\* failure.
C18_Witness ==
    /\ Finished("w1", "index") /\ IsOperationFailure(resp["w1"])
    /\ {"fs_set", "fs_delete"} \subseteq ops["w1"]

\* The first of image_id, tile_url, bounds that the body lacks
FirstAbsentField(data) ==
    IF "image_id" \notin DOMAIN data THEN "image_id"
    ELSE IF "tile_url" \notin DOMAIN data THEN "tile_url"
    ELSE IF "bounds" \notin DOMAIN data THEN "bounds"
    ELSE "none"

\* The first of west, south, east, north that the bounds lack
FirstAbsentBound(bounds) ==
    IF "west" \notin DOMAIN bounds THEN "west"
    ELSE IF "south" \notin DOMAIN bounds THEN "south"
    ELSE IF "east" \notin DOMAIN bounds THEN "east"
    ELSE IF "north" \notin DOMAIN bounds THEN "north"
    ELSE "none"

IntegerInRange(k) ==
    /\ k.type \in {"int", "numstr"}
    /\ 1 <= k.v /\ k.v <= MAX_RESULTS

\* The request has no query, or an empty one
NoQuery(data) == "query" \notin DOMAIN data \/ Strip(data["query"]) = <<>>

\* C20: a search_images request with no query or an empty one, or with a k
\* that is not an integer in [1, MAX_RESULTS], is answered by the validation
\* failure before any call is made; a successful one reports the integer given
\* as k, or DEFAULT_K when k is absent.
C20_KIsResolved ==
    \A w \in Workers :
        Finished(w, "search") =>
            /\ NoQuery(req[w]) => resp[w].code = 400 /\ ops[w] = {}
            /\ (~NoQuery(req[w]) /\ "k" \in DOMAIN req[w]
                    /\ ~IntegerInRange(req[w]["k"]))
                => resp[w].code = 400 /\ ops[w] = {}
            /\ (resp[w].code = 200 /\ "k" \in DOMAIN req[w])
                => resp[w].requested = req[w]["k"].v
            /\ (resp[w].code = 200 /\ "k" \notin DOMAIN req[w])
                => resp[w].requested = DEFAULT_K

-----------------------------------------------------------------------------
\* The center of index_tile's "created" response and the center the stores
\* keep are at the scale of centers: twice the midpoint of a and b is a + b.
TwiceMidpoint(a, b) == a + b

\* C21: after an index_tile request answered "created", the center of the
\* response and the center_lat/center_lon each store keeps for the request's
\* image_id are the arithmetic midpoint of the request's bounds, and the
\* midpoint of the west/south/east/north of the stored record is the stored
\* center again.
C21_CenterIsMidpoint ==
    \A w \in Workers :
        (Finished(w, "index") /\ resp[w].code = 201)
            => LET b == req[w]["bounds"]
                   id == req[w]["image_id"]
               IN  /\ resp[w].center.lat = TwiceMidpoint(b["south"], b["north"])
                   /\ resp[w].center.lon = TwiceMidpoint(b["west"], b["east"])
                   /\ id \in DOMAIN fs /\ id \in DOMAIN ch
                   /\ \A record \in {fs[id], ch[id].md} :
                        /\ {"center_lat", "center_lon"} \subseteq DOMAIN record
                        /\ record["center_lat"] = TwiceMidpoint(b["south"], b["north"])
                        /\ record["center_lon"] = TwiceMidpoint(b["west"], b["east"])
                        /\ record["center_lat"]
                             = TwiceMidpoint(record["south"], record["north"])
                        /\ record["center_lon"]
                             = TwiceMidpoint(record["west"], record["east"])

-----------------------------------------------------------------------------
\* The headers of w's request hold the index token nowhere
TokenMissingOrWrong(w) ==
    \A name \in DOMAIN hdr[w] :
        \A i \in 1..Len(hdr[w][name]) : <<hdr[w][name][i]>> # INDEX_TOKEN

\* The request of w carries the index token in X-Index-Token or as
\* "Authorization: Bearer <token>"
CarriesToken(w) ==
    \/ Get(hdr[w], "X-Index-Token") = INDEX_TOKEN
    \/ Get(hdr[w], "Authorization") = <<"Bearer ">> \o INDEX_TOKEN

\* The request of w carries the index token where require_auth reads it: in
\* X-Index-Token, or as "Authorization: Bearer <token>" with X-Index-Token
\* absent or empty
CarriesTokenFirst(w) ==
    \/ Get(hdr[w], "X-Index-Token") = INDEX_TOKEN
    \/ /\ Get(hdr[w], "X-Index-Token") \in {None, <<>>}
       /\ Get(hdr[w], "Authorization") = <<"Bearer ">> \o INDEX_TOKEN

\* C22 (as stated): an index_tile or delete_image request whose headers hold
\* no token or a token other than INDEX_TOKEN is answered "unauthorized", has
\* issued no store call and leaves both stores as they were; a request that
\* carries INDEX_TOKEN in X-Index-Token or as "Authorization: Bearer <token>"
\* is never answered "unauthorized" (the handler runs).
C22_TokenInEitherHeader ==
    \A w \in Workers :
        op[w] \in {"index", "delete"}
            => /\ TokenMissingOrWrong(w)
                    => /\ pc[w] = "idle" /\ resp[w] = Unauthorized
                       /\ ops[w] = {} /\ StoresUntouched(w)
               /\ CarriesToken(w) => resp[w] # Unauthorized

\* C22 (amended): an index_tile or delete_image request whose headers hold no
\* token or a token other than INDEX_TOKEN is answered "unauthorized"; every
\* request answered "unauthorized" has issued no store call and leaves both
\* stores as they were; a request that carries INDEX_TOKEN in X-Index-Token,
\* or as "Authorization: Bearer <token>" with no or an empty X-Index-Token, is
\* never answered "unauthorized" (the handler runs).
C22_TokenGuardsIndexAndDelete ==
    \A w \in Workers :
        op[w] \in {"index", "delete"}
            => /\ TokenMissingOrWrong(w)
                    => pc[w] = "idle" /\ resp[w] = Unauthorized
               /\ resp[w] = Unauthorized => ops[w] = {} /\ StoresUntouched(w)
               /\ CarriesTokenFirst(w) => resp[w] # Unauthorized

\* C22 witness: an index_tile request that carries the token only as
\* "Authorization: Bearer <token>" has been answered "created" over a store
\* that already held a record.
C22_Witness ==
    /\ Finished("w1", "index") /\ resp["w1"].code = 201
    /\ hdr["w1"] = Header("Authorization", <<"Bearer ">> \o INDEX_TOKEN)
    /\ snap["w1"][1] # <<>>

-----------------------------------------------------------------------------
\* C23: every health request is answered by a health signal: its status is
\* "ok" exactly when both store probes succeeded, otherwise "degraded" with
\* each store whose probe failed marked "error" (and the other "ok"); a
\* failing vector store never leaves the request without that signal.
C23_HealthAlwaysSignals ==
    \A w \in Workers :
        Finished(w, "health")
            => LET fsUp == "fs_get_failed" \notin ops[w]
                   chUp == "ch_count_failed" \notin ops[w]
               IN  /\ "status" \in DOMAIN resp[w]
                   /\ resp[w].status = "ok" <=> (fsUp /\ chUp)
                   /\ resp[w].status # "ok"
                        => /\ resp[w].status = "degraded"
                           /\ resp[w].components.firestore = "error" <=> ~fsUp
                           /\ resp[w].components.chromadb = "error" <=> ~chUp

-----------------------------------------------------------------------------
\* C24: two index_tile requests that both end in the operation failure are
\* answered by the same response, whatever error their collaborators raised:
\* nothing of the collaborator's error is in the response.  (search_images
\* builds its failure response the same way, SearchError.)
C24_FailureIsRedacted ==
    \A w1, w2 \in Workers :
        (/\ Finished(w1, "index") /\ resp[w1].code = 500
         /\ Finished(w2, "index") /\ resp[w2].code = 500)
            => resp[w1] = resp[w2]

-----------------------------------------------------------------------------
\* C25: once the metadata write of an index_tile request has failed, the
\* request attempts no vector-store write and issues no delete to either
\* store, and both stores stay as they were when the request arrived.
C25_NoCompensationWithoutMutation ==
    \A w \in Workers :
        (op[w] = "index" /\ "fs_set_failed" \in ops[w])
            => /\ ops[w] \cap {"ch_upsert", "ch_add"} = {}
               /\ ops[w] \cap {"fs_delete", "ch_delete"} = {}
               /\ StoresUntouched(w)

-----------------------------------------------------------------------------
\* C26: when an index_tile request for an image_id that had a record in both
\* stores fails during its dual write, that earlier record is in both stores
\* (the vector store is where search finds it) once the request has returned.
C26_FailedReindexKeepsRecord ==
    \A w \in Workers :
        (/\ Finished(w, "index") /\ resp[w].code = 500 /\ "fs_set" \in ops[w]
         /\ req[w]["image_id"] \in DOMAIN snap[w][1] \cap DOMAIN snap[w][2])
            => LET id == req[w]["image_id"]
               IN  /\ id \in DOMAIN fs /\ fs[id] = snap[w][1][id]
                   /\ id \in DOMAIN ch /\ ch[id] = snap[w][2][id]

-----------------------------------------------------------------------------
\* C27: when, of two concurrent index_tile requests for one image_id, one has
\* been answered "created" and the other has failed and rolled back, the
\* record of the first is in both stores: each store holds for that image_id
\* the record the first request wrote.
C27_RollbackSparesOtherRequest ==
    \A w1, w2 \in Workers :
        (/\ Finished(w1, "index") /\ resp[w1].code = 201
         /\ Finished(w2, "index") /\ resp[w2].code = 500
         /\ ops[w2] \cap {"fs_delete", "ch_delete"} # {}
         /\ req[w1]["image_id"] = req[w2]["image_id"])
            => LET id == req[w1]["image_id"]
               IN  /\ id \in DOMAIN fs /\ fs[id] = meta[w1]
                   /\ id \in DOMAIN ch /\ ch[id].md = CleanMeta(meta[w1])

-----------------------------------------------------------------------------
\* The positions of the list w's query fetched whose hit is admissible: every
\* position when the request has no roi box, else those of the records whose
\* center lies in the box
AdmissiblePositions(w) ==
    {p \in 1..Len(meta[w].metadatas) :
        TruthyDict(RoiOf(w)) => meta[w].metadatas[p] \in Admissible(RoiOf(w))}

\* C28: the results of a successful search_images request are the first k
\* admissible hits of the one list its query fetched, in the order of that
\* list (admissible: every hit without an roi box, else a hit whose center
\* lies in the inclusive box): the j-th result is the hit at the j-th
\* admissible position, there are min(k, number of admissible hits) results,
\* and no second query is made.
C28_FirstKAdmissibleHits ==
    \A w \in Workers :
        (Finished(w, "search") /\ resp[w].code = 200)
            => LET fetched == meta[w].metadatas
                   A == AdmissiblePositions(w)
                   n == IF resp[w].requested < Cardinality(A)
                        THEN resp[w].requested ELSE Cardinality(A)
               IN  /\ Len(meta[w].queries) = 1
                   /\ Len(resp[w].results) = n
                   /\ \A j \in 1..n :
                        \E p \in A :
                            /\ Cardinality({q \in A : q < p}) = j - 1
                            /\ resp[w].results[j].image_id = fetched[p]
                            /\ resp[w].results[j].distance
                                 = Distance(resp[w].query, ch[fetched[p]].emb)

\* C28 witness: an roi search with k = 2 fetched three hits, skipped the second
\* (no center) and returned the first and the third.
C28_Witness ==
    /\ Finished("w1", "search") /\ resp["w1"].code = 200
    /\ TruthyDict(RoiOf("w1"))
    /\ Len(meta["w1"].metadatas) = 3
    /\ AdmissiblePositions("w1") = {1, 3}
    /\ resp["w1"].requested = 2 /\ resp["w1"].count = 2
    /\ resp["w1"].results[2].image_id = meta["w1"].metadatas[3]

-----------------------------------------------------------------------------
\* C29: a search_images request that queries the vector store issues one
\* query: it asks for min(k * ROI_MULTIPLIER, MAX_RESULTS) hits when the request
\* has an roi box and for k hits otherwise, never more than MAX_RESULTS and never
\* fewer than k; a request that is rejected or whose embedding failed issues
\* none.
C29_OneBoundedQuery ==
    \A w \in Workers :
        Finished(w, "search")
            => IF "ch_query" \in ops[w]
               THEN LET k == RequestedK(req[w])
                        asked == meta[w].queries
                    IN  /\ Len(asked) = 1
                        /\ TruthyDict(RoiOf(w))
                            => asked[1] = (IF k * ROI_MULTIPLIER < MAX_RESULTS
                                           THEN k * ROI_MULTIPLIER ELSE MAX_RESULTS)
                        /\ ~TruthyDict(RoiOf(w)) => asked[1] = k
                        /\ asked[1] <= MAX_RESULTS
                        /\ asked[1] >= k
               ELSE meta[w].queries = <<>>

\* C29 witness: an roi search with k = MAX_RESULTS has asked the vector store
\* for MAX_RESULTS hits, not for k * ROI_MULTIPLIER.
C29_Witness ==
    /\ Finished("w1", "search") /\ resp["w1"].code = 200
    /\ TruthyDict(RoiOf("w1"))
    /\ resp["w1"].requested = MAX_RESULTS
    /\ meta["w1"].queries = <<MAX_RESULTS>>

-----------------------------------------------------------------------------
\* The first request re-indexed T1 from a tile_url other than the stored one
\* and was answered "created"
ReindexedWithNewUrl ==
    /\ Finished("w1", "index") /\ resp["w1"].code = 201
    /\ req["w1"]["image_id"] = T1
    /\ T1 \in DOMAIN snap["w1"][1]
    /\ snap["w1"][1][T1]["tile_url"] # req["w1"]["tile_url"]

\* C30: once T1 has been re-indexed from a new tile_url, the url_hash stored
\* for T1 is the hash of the new URL (as long as no later request has
\* written), and a later valid index_tile request under another image_id is
\* answered by the duplicate warning naming T1 if and only if its tile_url is
\* the new URL: the old URL no longer triggers the warning.
C30_DuplicateAgainstCurrentUrl ==
    ReindexedWithNewUrl
        => /\ ops["w2"] \cap Mutations = {}
                => /\ T1 \in DOMAIN fs
                   /\ fs[T1]["url_hash"] = url_hash(req["w1"]["tile_url"])
           /\ (/\ Finished("w2", "index") /\ resp["w2"].code # 400
               /\ req["w2"]["image_id"] # T1)
                => ((/\ resp["w2"].code = 200
                     /\ "existing_image_id" \in DOMAIN resp["w2"]
                     /\ resp["w2"].existing_image_id = T1)
                    <=> req["w2"]["tile_url"] = req["w1"]["tile_url"])

-----------------------------------------------------------------------------
\* The reason of the earliest failing check of a request that has its three
\* required fields, in the order image_id shape, tile_url allow-list,
\* thumb_url allow-list (when supplied), bounds; "ok" when none fails
EarliestReason(data) ==
    IF validate_image_id(data["image_id"]) # "ok"
        THEN validate_image_id(data["image_id"])
    ELSE IF validate_url(data["tile_url"]) # "ok"
        THEN validate_url(data["tile_url"])
    ELSE IF Truthy(Get(data, "thumb_url")) /\ validate_url(data["thumb_url"]) # "ok"
        THEN validate_url(data["thumb_url"])
    ELSE validate_bounds(data["bounds"])

\* C31: an index_tile request that has its required fields and fails one or
\* more of the checks image_id shape, tile_url allow-list, thumb_url allow-list
\* (when supplied), bounds is answered by the validation failure carrying the
\* one reason of the earliest failing check in that order.
C31_EarliestCheckReported ==
    \A w \in Workers :
        (/\ Finished(w, "index") /\ FirstAbsentField(req[w]) = "none"
         /\ EarliestReason(req[w]) # "ok")
            => resp[w] = [code |-> 400, error |-> EarliestReason(req[w])]

-----------------------------------------------------------------------------
\* What index_tile answers to a request, valid in everything else, whose
\* bounds are the value v: "ok" or the reason of its validation failure
AsBounds(v) == IndexValidate([Body(T1, UA, 1) EXCEPT !["bounds"] = v])

\* C32: a search_images request, valid in its query and k, that supplies an
\* roi (an object, with all, some or none of west/south/east/north) is
\* rejected with a validation failure exactly when index_tile rejects that
\* value as bounds, and with the same reason.
C32_RoiValidatedAsBounds ==
    \A w \in Workers :
        (/\ Finished(w, "search")
         /\ "roi" \in DOMAIN req[w] /\ req[w]["roi"] # NoneDict
         /\ SearchValidate(Without(req[w], "roi")) = "ok")
            => IF AsBounds(req[w]["roi"]) # "ok"
               THEN resp[w] = [code |-> 400, error |-> AsBounds(req[w]["roi"])]
               ELSE resp[w].code # 400

\* w's request has made at least one attempt at the image: it is between two
\* attempts, holds the downloaded bytes, or has ended on a fetch failure
Downloading(w) ==
    /\ op[w] = "index"
    /\ \/ pc[w] \in {"retry", "decode"}
       \/ /\ Finished(w, "index") /\ resp[w].code = 500
          /\ resp[w].error[2] \in FetchErrors

\* The last attempt met a transient status (500, 502, 503, 504) or a
\* transport error, a timeout included
Transient(o) == o.kind # "response" \/ o.status \in {500, 502, 503, 504}

ReadHandlers == {"search", "health", "stats"}

\* C34: search_images, health and stats are read-only: at every point of such
\* a request, whatever its outcome, it has issued no write and no delete to
\* either store and both stores are as they were when it arrived.
C34_ReadsLeaveStoresAlone ==
    \A w \in Workers :
        op[w] \in ReadHandlers =>
            /\ ops[w] \cap Mutations = {}
            /\ StoresUntouched(w)

\* C34 witness: after a delete_image request took a record out of both stores,
\* a stats request listed the two that are left.
C34_Witness ==
    /\ Finished("w1", "stats")
    /\ resp["w1"].code = 200
    /\ resp["w1"].total_images = 2
    /\ Len(resp["w1"].recent_images) = 2
    /\ now = MaxRequests
    /\ Cardinality(DOMAIN fs) = 2
====
